---- MODULE Spec2Model ----
(***************************************************************************)
(* Onboarding status reconciliation (frontend/src-tauri/src/onboarding.rs). *)
(*                                                                         *)
(* The wizard status lives under the key "status" of the document store    *)
(* "onboarding-status.json"; the model/provider selection is written to    *)
(* the relational settings store by complete_onboarding.  Each command is  *)
(* a sequence of steps, one per call on a collaborator (open the store,    *)
(* read the clock, set / delete the key, flush, write a config), and the   *)
(* outcome of every fallible collaborator call is chosen by the            *)
(* environment.                                                            *)
(*                                                                         *)
(* Time stamps are the instants they denote, as integers.  The wall clock   *)
(* is the environment's: a reading of chrono::Utc::now() may be later      *)
(* than, equal to or (the clock set back) earlier than the readings before *)
(* it.                                                                     *)
(***************************************************************************)
EXTENDS Integers, Sequences, FiniteSets, TLC

VARIABLES
    cache,      \* the store's "status" entry as store.get sees it: {} or {value}
    disk,       \* the entry as of the last successful store.save()
    rel,        \* relational settings: [summary, transcript], each {} or {config}
    pc,         \* per caller: position in the running command
    op,         \* per caller: the command running (or last run)
    arg,        \* per caller: the command's arguments
    st,         \* per caller: the local `status` of the running command
    ret,        \* per caller: the command's result
    calls,      \* per caller: history of the collaborator calls of this command
    pre         \* per caller: history, the stores as they were when the command began

vars == <<cache, disk, rel, pc, op, arg, st, ret, calls, pre>>

----------------------------------------------------------------------------
(* Bounds *)

MaxClock == 2

(* Callers.  Under Spec a single caller issues commands one after another. *)
Procs == {1, 2}
Sequential == {1}

----------------------------------------------------------------------------
(* Option<T> as a set with at most one element *)

None == {}
Some(x) == {x}
The(o) == CHOOSE x \in o : TRUE

(* Result values of the commands *)
Ret(kind, msg, val) == [kind |-> kind, msg |-> msg, val |-> val]
Running == Ret("none", "", None)
Ok == Ret("ok", "", None)
Err(msg) == Ret("err", msg, None)
Value(v) == Ret("value", "", v)

Call(name, ok) == [call |-> name, ok |-> ok]

----------------------------------------------------------------------------
(* Status model *)

U8Max == 255

\* struct OnboardingStatus / ModelStatus
OnboardingStatus(version, completed, current_step, parakeet, summary, last_updated) ==
    [version |-> version,
     completed |-> completed,
     current_step |-> current_step,
     model_status |-> [parakeet |-> parakeet, summary |-> summary],
     last_updated |-> last_updated]

\* Faulty variant of DefaultStatus: the wizard starts at step 0
DefaultAtStepZero(now) ==
    OnboardingStatus("1.0", FALSE, 0, "not_downloaded", "not_downloaded", now)

\* impl Default for OnboardingStatus
DefaultStatus(now) ==
    OnboardingStatus("1.0", FALSE, 1, "not_downloaded", "not_downloaded", now)

\* serde_json::Value: a JSON value carries its type, as the one field of a
\* record.  A string that holds a time stamp is written as the instant it
\* denotes; a number is an integer unless it is a JFloat.
JNull == [null |-> TRUE]
JString(s) == [string |-> s]
JBool(b) == [bool |-> b]
JNumber(n) == [number |-> n]
JFloat(x) == [float |-> x]
JArray(elements) == [array |-> elements]
JObject(fields) == [object |-> fields]

\* What the derived Deserialize accepts for a String, a bool and a u8 field
IsString(v) == DOMAIN v = {"string"}
IsBool(v) == DOMAIN v = {"bool"}
IsU8(v) == DOMAIN v = {"number"} /\ v.number \in 0..U8Max

\* The fields of the structs, in the order of their declaration
StatusFields == <<"version", "completed", "current_step", "model_status", "last_updated">>
ModelStatusFields == <<"parakeet", "summary">>

\* The derived Deserialize reads a struct from a JSON object that has every
\* field as a key (visit_map; other keys are ignored), or from a JSON array
\* that has one element per field, neither fewer nor more (visit_seq)
HasFields(v, names) ==
    \/ DOMAIN v = {"object"} /\ { names[i] : i \in DOMAIN names } \subseteq DOMAIN v.object
    \/ DOMAIN v = {"array"} /\ Len(v.array) = Len(names)

\* The value read for field k: by key from an object, by position from an array
Field(v, names, k) ==
    IF DOMAIN v = {"object"}
    THEN v.object[k]
    ELSE v.array[CHOOSE i \in DOMAIN names : names[i] = k]

\* Faulty variant of ToValue: completed is always written as true
ToValueMarksCompleted(s) ==
    JObject([version |-> JString(s.version),
             completed |-> JBool(TRUE),
             current_step |-> JNumber(s.current_step),
             model_status |-> JObject([parakeet |-> JString(s.model_status.parakeet),
                                       summary |-> JString(s.model_status.summary)]),
             last_updated |-> JString(s.last_updated)])

\* serde_json::to_value(&status): a JSON object keyed by the field names
ToValue(s) ==
    JObject([version |-> JString(s.version),
             completed |-> JBool(s.completed),
             current_step |-> JNumber(s.current_step),
             model_status |-> JObject([parakeet |-> JString(s.model_status.parakeet),
                                       summary |-> JString(s.model_status.summary)]),
             last_updated |-> JString(s.last_updated)])

\* The fields of a stored status and of its model_status
StatusField(v, k) == Field(v, StatusFields, k)
ModelStatusField(v, k) == Field(StatusField(v, "model_status"), ModelStatusFields, k)

\* The derived Deserialize of OnboardingStatus and ModelStatus accepts v:
\* every field is there and of its type
Deserializes(v) ==
    /\ HasFields(v, StatusFields)
    /\ IsString(StatusField(v, "version"))
    /\ IsBool(StatusField(v, "completed"))
    /\ IsU8(StatusField(v, "current_step"))
    /\ HasFields(StatusField(v, "model_status"), ModelStatusFields)
    /\ IsString(ModelStatusField(v, "parakeet"))
    /\ IsString(ModelStatusField(v, "summary"))
    /\ IsString(StatusField(v, "last_updated"))

\* Faulty variant of FromValue: current_step is not read back
FromValueDropsStep(v) ==
    IF Deserializes(v)
    THEN Some(OnboardingStatus(StatusField(v, "version").string,
                               StatusField(v, "completed").bool,
                               1,
                               ModelStatusField(v, "parakeet").string,
                               ModelStatusField(v, "summary").string,
                               StatusField(v, "last_updated").string))
    ELSE None

\* serde_json::from_value::<OnboardingStatus>(value).  None stands for Err.
FromValue(v) ==
    IF Deserializes(v)
    THEN Some(OnboardingStatus(StatusField(v, "version").string,
                               StatusField(v, "completed").bool,
                               StatusField(v, "current_step").number,
                               ModelStatusField(v, "parakeet").string,
                               ModelStatusField(v, "summary").string,
                               StatusField(v, "last_updated").string))
    ELSE None

\* A document of the other schema variant (permission record), as an older
\* version of the application left it: it has no current_step / model_status.
LegacyDocument ==
    JObject([version |-> JString("1.0"),
             completed |-> JBool(TRUE),
             permissions |-> JObject([microphone |-> JString("authorized"),
                                      systemAudio |-> JString("notDetermined")]),
             last_updated |-> JString(0)])

\* A document edited by hand: every key of the schema is there, but completed
\* is a string
MistypedDocument ==
    JObject([version |-> JString("1.0"),
             completed |-> JString("yes"),
             current_step |-> JNumber(2),
             model_status |-> JObject([parakeet |-> JString("downloaded"),
                                       summary |-> JString("downloaded")]),
             last_updated |-> JString(0)])

\* Documents that do not deserialize
ForeignDocuments == {LegacyDocument, MistypedDocument}

\* A document written by hand as JSON arrays: it deserializes, by position, to
\* a wizard in progress at step 2
ArrayDocument ==
    JArray(<<JString("1.0"), JBool(FALSE), JNumber(2),
             JArray(<<JString("downloaded"), JString("downloading")>>),
             JString(0)>>)

\* Documents the store may hold that this module's save did not write
InitialDocuments == ForeignDocuments \cup {ArrayDocument}

----------------------------------------------------------------------------
(* Store adapter: the pure parts *)

\* load_onboarding_status falls back to OnboardingStatus::default() (which
\* reads the clock) when the store did not open, holds no key, or holds a
\* value that does not deserialize.
UsesDefault(opened, store) ==
    \/ ~opened
    \/ store = None
    \/ FromValue(The(store)) = None

LoadStatus(opened, store, now) ==
    IF UsesDefault(opened, store)
    THEN DefaultStatus(now)
    ELSE The(FromValue(The(store)))

\* Faulty variant of Stamp: the caller's last_updated is kept
StampKeepsCaller(s, now) == s

\* status.last_updated = chrono::Utc::now().to_rfc3339()
Stamp(s, now) == [s EXCEPT !.last_updated = now]

\* Faulty variant of StoreSet: an existing entry is not overwritten
SetKeepsOld(store, value) == IF store = None THEN Some(value) ELSE store

\* store.set("status", value)
StoreSet(store, value) == Some(value)

\* Faulty variant of StoreDelete: the key is left in place
DeleteKeepsKey(store) == store

\* store.delete("status")
StoreDelete(store) == None

\* Faulty variant of GetStatusValue: the existence check is skipped
GetStatusAlwaysSome(store, status) == Some(status)

\* get_onboarding_status: None if the store has no "status" key
GetStatusValue(store, status) ==
    IF store = None THEN None ELSE Some(status)

----------------------------------------------------------------------------
(* Completion orchestrator: the pure parts *)

\* Faulty variant of CompleteMutation: the step is advanced by one, not set
CompleteAdvancesStep(s) ==
    [s EXCEPT !.completed = TRUE,
              !.current_step = IF @ < 5 THEN 5 ELSE @ + 1,
              !.model_status = [parakeet |-> "downloaded", summary |-> "downloaded"]]

\* Faulty variant of CompleteMutation: the wizard is sent back to its first step
CompleteResetsStep(s) ==
    [s EXCEPT !.completed = TRUE,
              !.current_step = 1,
              !.model_status = [parakeet |-> "downloaded", summary |-> "downloaded"]]

\* Faulty variant of CompleteMutation: completed is not set
CompleteKeepsCompleted(s) ==
    [s EXCEPT !.current_step = 5,
              !.model_status = [parakeet |-> "downloaded", summary |-> "downloaded"]]

\* Faulty variant of CompleteMutation: current_step is not advanced
CompleteKeepsStep(s) ==
    [s EXCEPT !.completed = TRUE,
              !.model_status = [parakeet |-> "downloaded", summary |-> "downloaded"]]

\* status.completed = true; status.current_step = 5; model_status.* = "downloaded"
CompleteMutation(s) ==
    [s EXCEPT !.completed = TRUE,
              !.current_step = 5,
              !.model_status = [parakeet |-> "downloaded", summary |-> "downloaded"]]

\* Arguments of SettingsRepository::save_model_config
SummaryConfig(summary_model) ==
    [provider |-> "builtin-ai", model |-> summary_model,
     whisper_model |-> "large-v3", ollama_endpoint |-> None]

\* Arguments of SettingsRepository::save_transcript_config
TranscriptConfig ==
    [provider |-> "parakeet", model |-> "parakeet-tdt-0.6b-v3-int8"]

\* SettingsRepository (not part of onboarding.rs): an upsert keyed by capability
SaveModelConfig(r, cfg) == [r EXCEPT !.summary = Some(cfg)]
SaveTranscriptConfig(r, cfg) == [r EXCEPT !.transcript = Some(cfg)]

\* Faulty variant of AfterSaveErr: complete_onboarding goes on after a failed save
SaveErrIgnored(o) == IF o = "complete" THEN "c_summary" ELSE "done"

\* save_onboarding_status(...)? : an error of the save ends the command
AfterSaveErr(o) == "done"

\* Faulty variant of AfterSaveOk: the transcription write comes first
SaveOkTranscriptFirst(o) == IF o = "complete" THEN "c_transcript" ELSE "done"

\* after a successful save: complete_onboarding goes on to the settings writes
AfterSaveOk(o) == IF o = "complete" THEN "c_summary" ELSE "done"

\* Faulty variant of AfterSummary: a failed summary write does not return
SummaryErrGoesOn(ok) == "c_transcript"

\* if let Err(e) = save_model_config(...) { return Err(...) }
AfterSummary(ok) == IF ok THEN "c_transcript" ELSE "done"

\* The prefix map_err puts before a save error
SavePrefix(o) ==
    IF o = "complete" THEN "Failed to save completed onboarding status: "
    ELSE "Failed to save onboarding status: "

----------------------------------------------------------------------------
(* Inputs *)

SummaryModels == {"gemma3:1b", "gemma3:4b"}

\* Statuses a caller may pass to save_onboarding_status_cmd: a wizard in
\* progress at step 2, a completed one at a step past the last, both with a
\* last_updated as late as the clock reads, and a fresh default
InputStatuses ==
    { OnboardingStatus("1.0", FALSE, 2, "downloaded", "downloading", MaxClock),
      OnboardingStatus("1.0", TRUE, 7, "downloaded", "downloading", MaxClock),
      DefaultStatus(0) }

NoArg == [status |-> None, summary_model |-> ""]

Snapshot == [cache |-> cache, rel |-> rel]

----------------------------------------------------------------------------
(* Initial state: a fresh install, or a store that another version of the    *)
(* application or a hand left with a document                              *)

Init ==
    /\ cache \in {None} \cup { Some(d) : d \in InitialDocuments }
    /\ disk = cache
    /\ rel = [summary |-> None, transcript |-> None]
    /\ pc = [p \in Procs |-> "idle"]
    /\ op = [p \in Procs |-> "none"]
    /\ arg = [p \in Procs |-> NoArg]
    /\ st = [p \in Procs |-> None]
    /\ ret = [p \in Procs |-> Running]
    /\ calls = [p \in Procs |-> <<>>]
    /\ pre = [p \in Procs |-> Snapshot]

Idle(p) == pc[p] \in {"idle", "done"}

\* chrono::Utc::now(): the instants a reading may return.  The code compares
\* a reading with nothing.
ClockReadings == 0..MaxClock

\* A command begins
Begin(p, o, a, s, entry) ==
    /\ Idle(p)
    /\ pc' = [pc EXCEPT ![p] = entry]
    /\ op' = [op EXCEPT ![p] = o]
    /\ arg' = [arg EXCEPT ![p] = a]
    /\ st' = [st EXCEPT ![p] = s]
    /\ ret' = [ret EXCEPT ![p] = Running]
    /\ calls' = [calls EXCEPT ![p] = <<>>]
    /\ pre' = [pre EXCEPT ![p] = Snapshot]
    /\ UNCHANGED <<cache, disk, rel>>

\* A command returns r
Return(p, r) ==
    /\ pc' = [pc EXCEPT ![p] = "done"]
    /\ ret' = [ret EXCEPT ![p] = r]

Log(p, c) == calls' = [calls EXCEPT ![p] = Append(@, c)]

----------------------------------------------------------------------------
(* get_onboarding_status *)

CallGet(p) == Begin(p, "get", NoArg, None, "get_load")

\* Faulty variant of GetLoad: a default that the load falls back to is also
\* written to the store
GetLoadWritesBack(p) ==
    /\ pc[p] = "get_load"
    /\ \E opened \in BOOLEAN :
        /\ \E now \in ClockReadings :
            /\ st' = [st EXCEPT ![p] = Some(LoadStatus(opened, cache, now))]
        /\ cache' = IF UsesDefault(opened, cache)
                    THEN Some(ToValue(The(st'[p])))
                    ELSE cache
        /\ Log(p, Call("store.open", opened))
    /\ pc' = [pc EXCEPT ![p] = "get_exists"]
    /\ UNCHANGED <<disk, rel, op, arg, ret, pre>>

\* load_onboarding_status(&app): open, get, deserialize or default
GetLoad(p) ==
    /\ pc[p] = "get_load"
    /\ \E opened \in BOOLEAN :
        /\ \E now \in ClockReadings :
            /\ st' = [st EXCEPT ![p] = Some(LoadStatus(opened, cache, now))]
        /\ Log(p, Call("store.open", opened))
    /\ pc' = [pc EXCEPT ![p] = "get_exists"]
    /\ UNCHANGED <<cache, disk, rel, op, arg, ret, pre>>

\* app.store(...)?; store.get("status").is_none()
GetExists(p) ==
    /\ pc[p] = "get_exists"
    /\ \E opened \in BOOLEAN :
        /\ Log(p, Call("store.open", opened))
        /\ IF opened
           THEN Return(p, Value(GetStatusValue(cache, The(st[p]))))
           ELSE Return(p, Err("Failed to access store"))
    /\ UNCHANGED <<cache, disk, rel, op, arg, st, pre>>

----------------------------------------------------------------------------
(* save_onboarding_status, run by save_onboarding_status_cmd and by         *)
(* complete_onboarding                                                     *)

CallSave(p, status) ==
    Begin(p, "save", [status |-> Some(status), summary_model |-> ""],
          Some(status), "save_open")

\* app.store("onboarding-status.json").map_err(...)?
SaveOpen(p) ==
    /\ pc[p] = "save_open"
    /\ \E opened \in BOOLEAN :
        /\ Log(p, Call("store.open", opened))
        /\ IF opened
           THEN /\ pc' = [pc EXCEPT ![p] = "save_stamp"]
                /\ UNCHANGED ret
           ELSE /\ pc' = [pc EXCEPT ![p] = AfterSaveErr(op[p])]
                /\ ret' = [ret EXCEPT ![p] =
                              Err(SavePrefix(op[p]) \o "Failed to access onboarding store")]
    /\ UNCHANGED <<cache, disk, rel, op, arg, st, pre>>

\* status.last_updated = now; serde_json::to_value(&status).map_err(...)?
SaveStamp(p) ==
    /\ pc[p] = "save_stamp"
    /\ \E now \in ClockReadings :
        /\ st' = [st EXCEPT ![p] = Some(Stamp(The(st[p]), now))]
    /\ \E serialized \in BOOLEAN :
        /\ Log(p, Call("to_value", serialized))
        /\ IF serialized
           THEN /\ pc' = [pc EXCEPT ![p] = "save_set"]
                /\ UNCHANGED ret
           ELSE /\ pc' = [pc EXCEPT ![p] = AfterSaveErr(op[p])]
                /\ ret' = [ret EXCEPT ![p] =
                              Err(SavePrefix(op[p]) \o "Failed to serialize onboarding status")]
    /\ UNCHANGED <<cache, disk, rel, op, arg, pre>>

\* store.set("status", status_value)
SaveSet(p) ==
    /\ pc[p] = "save_set"
    /\ cache' = StoreSet(cache, ToValue(The(st[p])))
    /\ Log(p, Call("store.set", TRUE))
    /\ pc' = [pc EXCEPT ![p] = "save_flush"]
    /\ UNCHANGED <<disk, rel, op, arg, st, ret, pre>>

\* store.save().map_err(...)?; Ok(())
SaveFlush(p) ==
    /\ pc[p] = "save_flush"
    /\ \E flushed \in BOOLEAN :
        /\ Log(p, Call("store.save", flushed))
        /\ IF flushed
           THEN /\ disk' = cache
                /\ pc' = [pc EXCEPT ![p] = AfterSaveOk(op[p])]
                /\ ret' = [ret EXCEPT ![p] = IF AfterSaveOk(op[p]) = "done" THEN Ok ELSE @]
           ELSE /\ UNCHANGED disk
                /\ pc' = [pc EXCEPT ![p] = AfterSaveErr(op[p])]
                /\ ret' = [ret EXCEPT ![p] =
                              Err(SavePrefix(op[p]) \o "Failed to save onboarding store to disk")]
    /\ UNCHANGED <<cache, rel, op, arg, st, pre>>

----------------------------------------------------------------------------
(* reset_onboarding_status, run by reset_onboarding_status_cmd *)

CallReset(p) == Begin(p, "reset", NoArg, None, "reset_open")

\* app.store("onboarding-status.json").map_err(...)?
ResetOpen(p) ==
    /\ pc[p] = "reset_open"
    /\ \E opened \in BOOLEAN :
        /\ Log(p, Call("store.open", opened))
        /\ IF opened
           THEN /\ pc' = [pc EXCEPT ![p] = "reset_delete"]
                /\ UNCHANGED ret
           ELSE Return(p, Err("Failed to reset onboarding status: "
                              \o "Failed to access onboarding store"))
    /\ UNCHANGED <<cache, disk, rel, op, arg, st, pre>>

\* Faulty variant of ResetDelete: the reset also clears the relational settings
ResetDeleteClearsSettings(p) ==
    /\ pc[p] = "reset_delete"
    /\ cache' = StoreDelete(cache)
    /\ rel' = [summary |-> None, transcript |-> None]
    /\ Log(p, Call("store.delete", TRUE))
    /\ pc' = [pc EXCEPT ![p] = "reset_flush"]
    /\ UNCHANGED <<disk, op, arg, st, ret, pre>>

\* store.delete("status")
ResetDelete(p) ==
    /\ pc[p] = "reset_delete"
    /\ cache' = StoreDelete(cache)
    /\ Log(p, Call("store.delete", TRUE))
    /\ pc' = [pc EXCEPT ![p] = "reset_flush"]
    /\ UNCHANGED <<disk, rel, op, arg, st, ret, pre>>

\* Faulty variant of ResetFlush: the result of the flush is ignored
ResetFlushIgnoresError(p) ==
    /\ pc[p] = "reset_flush"
    /\ \E flushed \in BOOLEAN :
        /\ Log(p, Call("store.save", flushed))
        /\ disk' = IF flushed THEN cache ELSE disk
        /\ Return(p, Ok)
    /\ UNCHANGED <<cache, rel, op, arg, st, pre>>

\* store.save().map_err(...)?; Ok(())
ResetFlush(p) ==
    /\ pc[p] = "reset_flush"
    /\ \E flushed \in BOOLEAN :
        /\ Log(p, Call("store.save", flushed))
        /\ IF flushed
           THEN /\ disk' = cache
                /\ Return(p, Ok)
           ELSE /\ UNCHANGED disk
                /\ Return(p, Err("Failed to reset onboarding status: "
                                 \o "Failed to save onboarding store after reset"))
    /\ UNCHANGED <<cache, rel, op, arg, st, pre>>

----------------------------------------------------------------------------
(* complete_onboarding *)

CallComplete(p, summary_model) ==
    Begin(p, "complete", [status |-> None, summary_model |-> summary_model],
          None, "c_load")

\* load_onboarding_status(&app), then the in-memory mutation
CompleteLoad(p) ==
    /\ pc[p] = "c_load"
    /\ \E opened \in BOOLEAN :
        /\ \E now \in ClockReadings :
            /\ st' = [st EXCEPT ![p] =
                         Some(CompleteMutation(LoadStatus(opened, cache, now)))]
        /\ Log(p, Call("store.open", opened))
    /\ pc' = [pc EXCEPT ![p] = "save_open"]
    /\ UNCHANGED <<cache, disk, rel, op, arg, ret, pre>>

\* Faulty variant of CompleteSummary: a failed write restores the document
CompleteSummaryRollsBack(p) ==
    /\ pc[p] = "c_summary"
    /\ \E written \in BOOLEAN :
        /\ Log(p, Call("save_model_config", written))
        /\ rel' = IF written
                  THEN SaveModelConfig(rel, SummaryConfig(arg[p].summary_model))
                  ELSE rel
        /\ cache' = IF written THEN cache ELSE pre[p].cache
        /\ pc' = [pc EXCEPT ![p] = AfterSummary(written)]
        /\ ret' = [ret EXCEPT ![p] =
                      IF written THEN @ ELSE Err("Failed to save summary model config")]
    /\ UNCHANGED <<disk, op, arg, st, pre>>

\* SettingsRepository::save_model_config(pool, "builtin-ai", &summary_model, "large-v3", None)
CompleteSummary(p) ==
    /\ pc[p] = "c_summary"
    /\ \E written \in BOOLEAN :
        /\ Log(p, Call("save_model_config", written))
        /\ rel' = IF written
                  THEN SaveModelConfig(rel, SummaryConfig(arg[p].summary_model))
                  ELSE rel
        /\ pc' = [pc EXCEPT ![p] = AfterSummary(written)]
        /\ ret' = [ret EXCEPT ![p] =
                      IF written THEN @ ELSE Err("Failed to save summary model config")]
    /\ UNCHANGED <<cache, disk, op, arg, st, pre>>

\* SettingsRepository::save_transcript_config(pool, "parakeet", "parakeet-tdt-0.6b-v3-int8")
CompleteTranscript(p) ==
    /\ pc[p] = "c_transcript"
    /\ \E written \in BOOLEAN :
        /\ Log(p, Call("save_transcript_config", written))
        /\ rel' = IF written THEN SaveTranscriptConfig(rel, TranscriptConfig) ELSE rel
        /\ Return(p, IF written THEN Ok
                     ELSE Err("Failed to save transcription model config"))
    /\ UNCHANGED <<cache, disk, op, arg, st, pre>>

----------------------------------------------------------------------------
(* Specification: one caller, each command run to completion before the next *)

Step(p) ==
    \/ CallGet(p)
    \/ GetLoad(p)
    \/ GetExists(p)
    \/ \E status \in InputStatuses : CallSave(p, status)
    \/ SaveOpen(p)
    \/ SaveStamp(p)
    \/ SaveSet(p)
    \/ SaveFlush(p)
    \/ CallReset(p)
    \/ ResetOpen(p)
    \/ ResetDelete(p)
    \/ ResetFlush(p)
    \/ \E m \in SummaryModels : CallComplete(p, m)
    \/ CompleteLoad(p)
    \/ CompleteSummary(p)
    \/ CompleteTranscript(p)

Next == \E p \in Sequential : Step(p)

Spec == Init /\ [][Next]_vars

\* A caller that has made no call yet invokes complete_onboarding
CallCompleteOnce(p, summary_model) ==
    /\ op[p] = "none"
    /\ CallComplete(p, summary_model)

\* The steps of one complete_onboarding call
CompleteStep(p) ==
    \/ \E summary_model \in SummaryModels : CallCompleteOnce(p, summary_model)
    \/ CompleteLoad(p)
    \/ SaveOpen(p)
    \/ SaveStamp(p)
    \/ SaveSet(p)
    \/ SaveFlush(p)
    \/ CompleteSummary(p)
    \/ CompleteTranscript(p)

\* Two callers each run one complete_onboarding with no lock between them:
\* the steps of one call interleave with the steps of the other
NextConcurrent == \E p \in Procs : CompleteStep(p)

SpecConcurrent == Init /\ [][NextConcurrent]_vars

----------------------------------------------------------------------------
(* Vocabulary of the properties *)

Done(p, o) == pc[p] = "done" /\ op[p] = o

Logged(p, name) == \E i \in DOMAIN calls[p] : calls[p][i].call = name

LoggedWith(p, name, ok) == \E i \in DOMAIN calls[p] : calls[p][i] = Call(name, ok)

\* The save of the running command returned Ok: its flush succeeded
SaveSucceeded(p) == LoggedWith(p, "store.save", TRUE)

\* The save of a complete_onboarding returned Err.  The first logged call is
\* the open of load_onboarding_status, whose failure is not an error.
SaveFailed(p) ==
    \E i \in DOMAIN calls[p] :
        /\ i >= 2
        /\ calls[p][i].call \in {"store.open", "to_value", "store.save"}
        /\ ~calls[p][i].ok

SettingsWrites == {"save_model_config", "save_transcript_config"}

\* The status a store's document deserializes to
Held(store) == The(FromValue(The(store)))

\* The store holds a document that parses and has completed = true
HeldCompleted(store) ==
    /\ store # None
    /\ FromValue(The(store)) # None
    /\ The(FromValue(The(store))).completed

\* Equality in every field but last_updated
SameButStamp(a, b) ==
    /\ a.version = b.version
    /\ a.completed = b.completed
    /\ a.current_step = b.current_step
    /\ a.model_status = b.model_status

IsInitialStatus(s) ==
    /\ s.version = "1.0"
    /\ s.completed = FALSE
    /\ s.current_step = 1
    /\ s.model_status.parakeet = "not_downloaded"
    /\ s.model_status.summary = "not_downloaded"

----------------------------------------------------------------------------
(* C1: in complete_onboarding no relational settings write is invoked       *)
(* unless the save of the completed status returned success; whenever that *)
(* save fails (store not opened, serialization failed, flush failed) the   *)
(* command has returned an error and the relational store is as it was     *)
(* when the command began.                                                 *)
C1_NoSettingsWriteBeforeSave ==
    \A p \in Procs :
        op[p] = "complete" =>
            /\ (\E w \in SettingsWrites : Logged(p, w)) => SaveSucceeded(p)
            /\ pc[p] \in {"c_summary", "c_transcript"} => SaveSucceeded(p)
            /\ SaveFailed(p) =>
                /\ pc[p] = "done"
                /\ ret[p].kind = "err"
                /\ \A w \in SettingsWrites : ~Logged(p, w)
                /\ rel = pre[p].rel

\* a completion whose flush failed, run when the settings held a config
C1_Witness ==
    \E p \in Procs :
        /\ Done(p, "complete")
        /\ LoggedWith(p, "store.save", FALSE)
        /\ ret[p].kind = "err"
        /\ rel.summary # None

(* C2: once complete_onboarding has saved the completed status, the         *)
(* document store holds exactly that document, with completed = true, in   *)
(* the cache and on disk, through the settings writes and at the return,   *)
(* whatever the outcome of the summary or the transcription write.         *)
C2_CompletedSurvivesSettingsFailure ==
    \A p \in Procs :
        (op[p] = "complete" /\ SaveSucceeded(p)) =>
            /\ HeldCompleted(cache)
            /\ cache = Some(ToValue(The(st[p])))
            /\ disk = cache

\* a completion that returned the error of a settings write, begun on an
\* in-progress document
C2_Witness ==
    \E p \in Procs :
        /\ Done(p, "complete")
        /\ ret[p].kind = "err"
        /\ \E w \in SettingsWrites : LoggedWith(p, w, FALSE)
        /\ pre[p].cache # None
        /\ ~HeldCompleted(pre[p].cache)
        /\ HeldCompleted(cache)

(* C3, as claimed: in every run of complete_onboarding in which the status  *)
(* save succeeds, both save_model_config and save_transcript_config are    *)
(* invoked, whatever the outcome of the other.                             *)
C3_BothWritesAttempted ==
    \A p \in Procs :
        (Done(p, "complete") /\ SaveSucceeded(p)) =>
            /\ Logged(p, "save_model_config")
            /\ Logged(p, "save_transcript_config")

(* C3, amended: when the status save succeeds the summary write is always   *)
(* invoked, and the transcription write is invoked if and only if the      *)
(* summary write succeeded.                                                *)
C3_TranscriptOnlyAfterSummary ==
    \A p \in Procs :
        (Done(p, "complete") /\ SaveSucceeded(p)) =>
            /\ Logged(p, "save_model_config")
            /\ Logged(p, "save_transcript_config")
                   <=> LoggedWith(p, "save_model_config", TRUE)

\* a completion whose summary write failed
C3_Witness ==
    \E p \in Procs :
        /\ Done(p, "complete")
        /\ SaveSucceeded(p)
        /\ LoggedWith(p, "save_model_config", FALSE)
        /\ ~Logged(p, "save_transcript_config")

(* C4: the settings writes are fail-fast: the summary write comes before    *)
(* the transcription write, and a settings write that fails is the last    *)
(* call of the command, which has returned the error of that write, the    *)
(* document store being as the save left it.                               *)
C4_FailFast ==
    \A p \in Procs :
        op[p] = "complete" =>
            /\ \A i, j \in DOMAIN calls[p] :
                   (calls[p][i].call = "save_model_config"
                    /\ calls[p][j].call = "save_transcript_config") => i < j
            /\ Logged(p, "save_transcript_config") => Logged(p, "save_model_config")
            /\ \A i \in DOMAIN calls[p] :
                   (calls[p][i].call \in SettingsWrites /\ ~calls[p][i].ok) =>
                       /\ i = Len(calls[p])
                       /\ pc[p] = "done"
                       /\ ret[p] = Err(IF calls[p][i].call = "save_model_config"
                                       THEN "Failed to save summary model config"
                                       ELSE "Failed to save transcription model config")
                       /\ cache = Some(ToValue(The(st[p])))
                       /\ disk = cache

\* a completion whose transcription write failed after the summary write
C4_Witness ==
    \E p \in Procs :
        /\ Done(p, "complete")
        /\ LoggedWith(p, "save_model_config", TRUE)
        /\ LoggedWith(p, "save_transcript_config", FALSE)
        /\ ret[p].kind = "err"

(* C5, as claimed: for every status D, a load that follows a successful     *)
(* save(D) returns D in version, completed, current_step and model_status, *)
(* with a last_updated >= D.last_updated.                                  *)
C5_RoundTripStampNotEarlier ==
    \A p \in Procs :
        (Done(p, "save") /\ ret[p] = Ok) =>
            LET D == The(arg[p].status)
                L == LoadStatus(TRUE, cache, 0)
            IN  /\ SameButStamp(L, D)
                /\ L.last_updated >= D.last_updated

(* C5, amended: a load that follows a successful save(D) returns D in       *)
(* version, completed, current_step and model_status, with last_updated    *)
(* replaced by the wall-clock reading the save took at line 89, whatever   *)
(* D.last_updated was and whatever the store held.                         *)
C5_RoundTripStampedBySave ==
    \A p \in Procs :
        (Done(p, "save") /\ ret[p] = Ok) =>
            LET D == The(arg[p].status)
                L == LoadStatus(TRUE, cache, 0)
            IN  /\ SameButStamp(L, D)
                /\ L.last_updated = The(st[p]).last_updated
                /\ L.last_updated \in ClockReadings

\* a successful save of an in-progress status at step 2 whose last_updated
\* lies after the reading of the save
C5_Witness ==
    \E p \in Procs :
        /\ Done(p, "save")
        /\ ret[p] = Ok
        /\ The(arg[p].status).current_step = 2
        /\ ~The(arg[p].status).completed
        /\ The(arg[p].status).last_updated > Held(cache).last_updated
        /\ pre[p].cache # None

(* C6: a reset fails only if opening the store or the flush failed, also    *)
(* when no key was held; after a reset that returned success the store     *)
(* holds no status key, in the cache and on disk, whatever it held before, *)
(* so that get_onboarding_status reports None there, and the relational    *)
(* settings are untouched.                                                 *)
C6_ResetLeavesNoKey ==
    \A p \in Procs :
        Done(p, "reset") =>
            /\ ret[p] = Ok <=> \A i \in DOMAIN calls[p] : calls[p][i].ok
            /\ ret[p] = Ok =>
                /\ cache = None
                /\ disk = None
                /\ GetStatusValue(cache, LoadStatus(TRUE, cache, 0)) = None
                /\ rel = pre[p].rel

\* a successful reset of a store that held a completed document
C6_Witness ==
    \E p \in Procs :
        /\ Done(p, "reset")
        /\ ret[p] = Ok
        /\ HeldCompleted(pre[p].cache)
        /\ cache = None

(* C7: on a store that holds no status key, load_onboarding_status returns  *)
(* the default status (version 1.0, completed = false, current_step = 1,   *)
(* both model statuses not_downloaded) and creates no key, and a           *)
(* get_onboarding_status that returns a value returns None.                *)
C7_EmptyStoreLoadsDefault ==
    \A p \in Procs :
        (Done(p, "get") /\ pre[p].cache = None) =>
            /\ st[p] # None
            /\ IsInitialStatus(The(st[p]))
            /\ cache = None
            /\ ret[p].kind \in {"value", "err"}
            /\ ret[p].kind = "value" => ret[p].val = None

\* get_onboarding_status returned None on a store that was never initialized
C7_Witness ==
    \E p \in Procs :
        /\ Done(p, "get")
        /\ pre[p].cache = None
        /\ disk = None
        /\ ret[p] = Value(None)

\* What a successful complete_onboarding leaves, the stamp aside
CompleteResult(p) ==
    /\ cache # None
    /\ disk = cache
    /\ FromValue(The(cache)) # None
    /\ LET s == The(FromValue(The(cache)))
       IN  /\ s.completed = TRUE
           /\ s.current_step = 5
           /\ s.model_status.parakeet = "downloaded"
           /\ s.model_status.summary = "downloaded"
    /\ rel.summary # None
    /\ The(rel.summary).provider = "builtin-ai"
    /\ The(rel.summary).model = arg[p].summary_model
    /\ rel.transcript # None
    /\ The(rel.transcript).provider = "parakeet"
    /\ The(rel.transcript).model = "parakeet-tdt-0.6b-v3-int8"

(* C8, as claimed: whenever complete_onboarding(summary_model) returns      *)
(* success, from any prior document state, the document store holds a      *)
(* status with completed = true, current_step = 5 and both model statuses  *)
(* downloaded, stamped later than the document it found, and the           *)
(* relational store holds (builtin-ai, summary_model) for the summary and  *)
(* (parakeet, parakeet-tdt-0.6b-v3-int8) for the transcription.            *)
C8_CompleteResult ==
    \A p \in Procs :
        (Done(p, "complete") /\ ret[p] = Ok) =>
            /\ CompleteResult(p)
            /\ (pre[p].cache # None /\ FromValue(The(pre[p].cache)) # None) =>
                   Held(cache).last_updated > Held(pre[p].cache).last_updated

(* C8, amended: whenever complete_onboarding(summary_model) returns         *)
(* success, from any prior document state, the document store holds a      *)
(* status with completed = true, current_step = 5 and both model statuses  *)
(* downloaded, stamped with the wall-clock reading its save took, and the  *)
(* relational store holds (builtin-ai, summary_model) for the summary and  *)
(* (parakeet, parakeet-tdt-0.6b-v3-int8) for the transcription.            *)
C8_CompleteResultStampedBySave ==
    \A p \in Procs :
        (Done(p, "complete") /\ ret[p] = Ok) =>
            /\ CompleteResult(p)
            /\ Held(cache).last_updated = The(st[p]).last_updated
            /\ Held(cache).last_updated \in ClockReadings

\* a successful completion begun on an in-progress document, the wall clock
\* reading at its save not later than the stamp of that document
C8_Witness ==
    \E p \in Procs :
        /\ Done(p, "complete")
        /\ ret[p] = Ok
        /\ pre[p].cache # None
        /\ FromValue(The(pre[p].cache)) # None
        /\ ~HeldCompleted(pre[p].cache)
        /\ Held(cache).last_updated <= Held(pre[p].cache).last_updated

\* The step is the store.set of a save-status command
SaveCmdSets(p) == op[p] = "save" /\ pc[p] = "save_set" /\ pc'[p] = "save_flush"

\* The step is the store.delete of a reset
ResetDeletes(p) == op[p] = "reset" /\ pc[p] = "reset_delete" /\ pc'[p] = "reset_flush"

(* C9, as claimed: once the held document has completed = true, no step of  *)
(* get-status, save-status or complete makes the held document show        *)
(* anything else; only reset-status removes it.                            *)
C9_CompletedOneWay ==
    [][ (cache' # cache /\ HeldCompleted(cache)) =>
            \/ HeldCompleted(cache')
            \/ cache' = None /\ \E p \in Procs : ResetDeletes(p) ]_vars

(* C9, amended: once the held document has completed = true, no step of     *)
(* get-status or complete changes that; the only steps after which the     *)
(* store no longer holds a completed document are the key write of a       *)
(* save-status whose argument has completed = false, and the key deletion  *)
(* of a reset.                                                             *)
C9_CompletedUntilSaveOrReset ==
    [][ (cache' # cache /\ HeldCompleted(cache)) =>
            \/ HeldCompleted(cache')
            \/ \E p \in Procs :
                   /\ SaveCmdSets(p)
                   /\ ~The(arg[p].status).completed
                   /\ cache' # None
                   /\ SameButStamp(Held(cache'), The(arg[p].status))
            \/ cache' = None /\ \E p \in Procs : ResetDeletes(p) ]_vars

\* a completion run on a store that already held a completed document
C9_Witness ==
    \E p \in Procs :
        /\ Done(p, "complete")
        /\ SaveSucceeded(p)
        /\ HeldCompleted(pre[p].cache)
        /\ HeldCompleted(cache)
        /\ cache # pre[p].cache

(* C10: a get_onboarding_status that returns a value returns None if and    *)
(* only if the store holds no status key, and Some(status) whenever a key  *)
(* is held: the held document when it was loaded and parses, also when it  *)
(* equals the defaults.  It returns an error exactly when the store could  *)
(* not be opened for the existence check.                                  *)
C10_NoneIffNoKey ==
    \A p \in Procs :
        Done(p, "get") =>
            /\ ret[p].kind \in {"value", "err"}
            /\ ret[p].kind = "err" <=> calls[p][Len(calls[p])] = Call("store.open", FALSE)
            /\ ret[p].kind = "value" =>
                /\ ret[p].val = None <=> cache = None
                /\ (/\ cache # None
                    /\ calls[p][1].ok
                    /\ FromValue(The(cache)) # None)
                       => ret[p].val = FromValue(The(cache))

\* get_onboarding_status returned Some for a held document equal to the defaults
C10_Witness ==
    \E p \in Procs :
        /\ Done(p, "get")
        /\ ret[p].kind = "value"
        /\ ret[p].val # None
        /\ cache # None
        /\ ret[p].val = FromValue(The(cache))
        /\ IsInitialStatus(The(ret[p].val))

\* No command is running
Quiescent == \A p \in Procs : Idle(p)

(* C11, as claimed: read-path failures are never surfaced: whether or not   *)
(* the store can be opened and whether or not the held document parses,    *)
(* load_onboarding_status yields a status and get_onboarding_status        *)
(* returns a value, never an error.                                        *)
C11_ReadsNeverFail ==
    \A p \in Procs :
        /\ (op[p] = "get" /\ pc[p] \in {"get_exists", "done"}) => st[p] # None
        /\ Done(p, "get") => ret[p].kind = "value"

(* C12, as claimed: between commands, the last_updated of the document the  *)
(* store returns to a load is the stamp of the most recent save that       *)
(* returned success, that is, of the document last flushed to disk; it is  *)
(* never the stamp of a save that returned an error.                       *)
C12_StampOfLastSuccessfulSave ==
    (Quiescent /\ cache # None /\ FromValue(The(cache)) # None) =>
        /\ disk # None
        /\ FromValue(The(disk)) # None
        /\ The(FromValue(The(cache))).last_updated
               = The(FromValue(The(disk))).last_updated

\* The step is the store.set of the save inside complete_onboarding
CompleteSets(p) == op[p] = "complete" /\ pc[p] = "save_set" /\ pc'[p] = "save_flush"

(* C13, as claimed: the held document changes from absent or not completed  *)
(* to completed = true only by a step of complete_onboarding, never by a   *)
(* step of save-status, get-status or reset-status.                        *)
C13_CompletedOnlyByComplete ==
    [][ (cache' # cache /\ ~HeldCompleted(cache) /\ HeldCompleted(cache')) =>
            \E p \in Procs : CompleteSets(p) ]_vars

(* C13, amended: the held document changes from absent or not completed to  *)
(* completed = true only by the key write of complete_onboarding or by the *)
(* key write of a save-status whose argument has completed = true; never   *)
(* by get-status or reset-status, nor by a save-status whose argument has  *)
(* completed = false.                                                      *)
C13_CompletedByCompleteOrSave ==
    [][ (cache' # cache /\ ~HeldCompleted(cache) /\ HeldCompleted(cache')) =>
            \E p \in Procs :
                \/ CompleteSets(p)
                \/ SaveCmdSets(p) /\ The(arg[p].status).completed ]_vars

\* a completion made an in-progress document completed
C13_Witness ==
    \E p \in Procs :
        /\ op[p] = "complete"
        /\ pc[p] = "save_flush"
        /\ pre[p].cache # None
        /\ FromValue(The(pre[p].cache)) # None
        /\ ~HeldCompleted(pre[p].cache)
        /\ HeldCompleted(cache)

\* Index of the first write-path call in the log: complete_onboarding first
\* opens the store for its load, whose failure is defaulted
FirstWriteCall(p) == IF op[p] = "complete" THEN 2 ELSE 1

(* C14: save-status, reset-status and complete return success only if every *)
(* write-path call they issued succeeded (the open of the save or reset,   *)
(* the serialization, the key write or deletion, the flush, the settings   *)
(* writes), and return an error as soon as one fails; when the store       *)
(* cannot be opened, save and reset return an error having issued no other *)
(* call, and the status key is as it was.                                  *)
C14_WriteFailuresReported ==
    \A p \in Procs :
        op[p] \in {"save", "reset", "complete"} =>
            /\ \A i \in DOMAIN calls[p] :
                   (i >= FirstWriteCall(p) /\ ~calls[p][i].ok) =>
                       /\ pc[p] = "done"
                       /\ ret[p].kind = "err"
                       /\ i = Len(calls[p])
            /\ (pc[p] = "done" /\ ret[p] = Ok) =>
                   \A i \in DOMAIN calls[p] : i >= FirstWriteCall(p) => calls[p][i].ok
            /\ pc[p] = "done" => ret[p].kind \in {"ok", "err"}
            /\ (op[p] \in {"save", "reset"} /\ calls[p] = <<Call("store.open", FALSE)>>) =>
                   /\ ret[p].kind = "err"
                   /\ cache = pre[p].cache

\* a reset that could not open a store holding a document
C14_Witness ==
    \E p \in Procs :
        /\ Done(p, "reset")
        /\ calls[p] = <<Call("store.open", FALSE)>>
        /\ ret[p].kind = "err"
        /\ cache # None
        /\ FromValue(The(cache)) # None

\* The stores are as a successful complete_onboarding(m) leaves them
CompletedWith(store, settings, m) ==
    /\ HeldCompleted(store)
    /\ Held(store).current_step = 5
    /\ Held(store).model_status.parakeet = "downloaded"
    /\ Held(store).model_status.summary = "downloaded"
    /\ settings.summary # None
    /\ The(settings.summary).provider = "builtin-ai"
    /\ The(settings.summary).model = m
    /\ settings.transcript # None
    /\ The(settings.transcript).provider = "parakeet"
    /\ The(settings.transcript).model = "parakeet-tdt-0.6b-v3-int8"

(* C15, as claimed: re-running completion is idempotent: a                 *)
(* complete_onboarding(m) that returns success on stores that are as a     *)
(* successful complete_onboarding(m) left them leaves the document equal   *)
(* in every field but last_updated, which is newer, and the relational     *)
(* settings equal.                                                         *)
C15_CompleteIdempotent ==
    \A p \in Procs :
        (/\ Done(p, "complete")
         /\ ret[p] = Ok
         /\ CompletedWith(pre[p].cache, pre[p].rel, arg[p].summary_model)) =>
            /\ cache # None
            /\ SameButStamp(Held(cache), Held(pre[p].cache))
            /\ Held(cache).last_updated > Held(pre[p].cache).last_updated
            /\ disk = cache
            /\ rel = pre[p].rel

(* C15, amended: a complete_onboarding(m) that returns success on stores   *)
(* that are as a successful complete_onboarding(m) left them leaves the    *)
(* document equal in every field but last_updated, which is the wall-clock *)
(* reading of the second save, and the relational settings equal.          *)
C15_CompleteIdempotentButStamp ==
    \A p \in Procs :
        (/\ Done(p, "complete")
         /\ ret[p] = Ok
         /\ CompletedWith(pre[p].cache, pre[p].rel, arg[p].summary_model)) =>
            /\ cache # None
            /\ SameButStamp(Held(cache), Held(pre[p].cache))
            /\ Held(cache).last_updated = The(st[p]).last_updated
            /\ disk = cache
            /\ rel = pre[p].rel

\* a second successful completion with the same summary model
C15_Witness ==
    \E p \in Procs :
        /\ Done(p, "complete")
        /\ ret[p] = Ok
        /\ CompletedWith(pre[p].cache, pre[p].rel, arg[p].summary_model)
        /\ disk = cache
        /\ Held(cache).last_updated < Held(pre[p].cache).last_updated

\* The store held a document that an earlier completion saved, while a
\* settings write of that completion had failed
LeftByFailedCompletion(snapshot) ==
    /\ HeldCompleted(snapshot.cache)
    /\ Held(snapshot.cache).current_step = 5
    /\ snapshot.rel.summary = None \/ snapshot.rel.transcript = None

(* C16: a complete_onboarding begun on a store that holds a completed       *)
(* document, as a completion whose settings write failed leaves it, keeps  *)
(* the held document at completed = true in every intermediate state, and  *)
(* if it returns success both capability configs are in the relational     *)
(* store.                                                                  *)
C16_RetryKeepsCompleted ==
    \A p \in Procs :
        (op[p] = "complete" /\ HeldCompleted(pre[p].cache)) =>
            /\ HeldCompleted(cache)
            /\ (pc[p] = "done" /\ ret[p] = Ok) =>
                   CompletedWith(cache, rel, arg[p].summary_model)

\* a retry that succeeded after a completion whose settings write had failed
C16_Witness ==
    \E p \in Procs :
        /\ Done(p, "complete")
        /\ ret[p] = Ok
        /\ LeftByFailedCompletion(pre[p])
        /\ rel.summary # None
        /\ rel.transcript # None

\* Both callers have finished a complete_onboarding whose save succeeded
BothCompleted == \A p \in Procs : Done(p, "complete") /\ SaveSucceeded(p)

\* The two stamps the calls took at line 89
CompletionStamps == { The(st[p]).last_updated : p \in Procs }

(* C17, as claimed: once two concurrent complete_onboarding calls have both *)
(* finished with their saves done, the stored document has completed =     *)
(* true and carries the later of the two calls' last_updated stamps.       *)
C17_LaterStampWins ==
    BothCompleted =>
        /\ HeldCompleted(cache)
        /\ \A t \in CompletionStamps : Held(cache).last_updated >= t

(* C17, amended: the last key write wins, whatever its stamp.  Every key   *)
(* write of a complete_onboarding replaces the held document by the        *)
(* writer's own completed document, no other step of the two calls changes *)
(* the key, and once both calls have finished with their saves done the    *)
(* stored document is completed and is the document of one of the two      *)
(* calls.                                                                  *)
C17_LastKeyWriteWins ==
    [][ /\ \A p \in Procs :
               CompleteSets(p) =>
                   /\ cache' = Some(ToValue(The(st[p])))
                   /\ HeldCompleted(cache')
        /\ cache' # cache => \E p \in Procs : CompleteSets(p)
        /\ BothCompleted' =>
               /\ HeldCompleted(cache')
               /\ \E p \in Procs : cache' = Some(ToValue(The(st'[p])))
               /\ Held(cache').last_updated \in CompletionStamps' ]_vars

\* both calls saved, and the document left is the one stamped earlier
C17_Witness ==
    /\ BothCompleted
    /\ HeldCompleted(cache)
    /\ \E t \in CompletionStamps : Held(cache).last_updated < t

\* The store holds a document that parses
HeldParsed(store) == store # None /\ FromValue(The(store)) # None

\* The current_step of a held document that parses
StepOf(store) == The(FromValue(The(store))).current_step

(* C18, as claimed: a held status document has current_step in 1..5, and   *)
(* no step of save-status or complete makes the persisted current_step     *)
(* lower than it was.                                                      *)
C18_StepMonotone ==
    [][ /\ HeldParsed(cache') => StepOf(cache') \in 1..5
        /\ (HeldParsed(cache) /\ HeldParsed(cache')) =>
               StepOf(cache') >= StepOf(cache) ]_vars

(* C18, amended: the persisted current_step is the u8 the last key write   *)
(* carried.  The key write of complete_onboarding sets it to 5, the key    *)
(* write of save-status sets it to the caller's value; a step outside 1..5 *)
(* comes only from a save-status key write, and the step decreases only by *)
(* a save-status key write or by a complete_onboarding key write over a    *)
(* step above 5.                                                           *)
C18_StepAsLastWritten ==
    [][ /\ (cache' # cache /\ HeldParsed(cache')) => StepOf(cache') \in 0..U8Max
        /\ \A p \in Procs : CompleteSets(p) => StepOf(cache') = 5
        /\ \A p \in Procs :
               SaveCmdSets(p) => StepOf(cache') = The(arg[p].status).current_step
        /\ (cache' # cache /\ HeldParsed(cache') /\ StepOf(cache') \notin 1..5) =>
               \E p \in Procs : SaveCmdSets(p)
        /\ (cache' # cache /\ HeldParsed(cache) /\ HeldParsed(cache')
               /\ StepOf(cache') < StepOf(cache)) =>
               \E p \in Procs :
                   \/ SaveCmdSets(p)
                   \/ CompleteSets(p) /\ StepOf(cache) > 5 ]_vars

\* a save-status has lowered the step of a completed wizard
C18_Witness ==
    \E p \in Procs :
        /\ Done(p, "save")
        /\ ret[p] = Ok
        /\ HeldCompleted(pre[p].cache)
        /\ StepOf(pre[p].cache) = 5
        /\ HeldParsed(cache)
        /\ StepOf(cache) < 5

\* The step is one of load_onboarding_status or get_onboarding_status
ReadStep(p) == pc[p] \in {"get_load", "get_exists", "c_load"} /\ pc'[p] # pc[p]

(* C19: reads are pure: no step of load_onboarding_status (in get-status   *)
(* or in complete) and no step of get_onboarding_status changes the held   *)
(* document or the flushed document, and from its call to its return and   *)
(* after, a get-status has the store as it found it: no key is created on  *)
(* an empty store and an unparsable document is left as it is.             *)
C19_ReadsArePure ==
    [][ \A p \in Procs :
            /\ ReadStep(p) => cache' = cache /\ disk' = disk
            /\ op'[p] = "get" => cache' = pre'[p].cache ]_vars

\* a get-status fell back to the default over an unparsable document
C19_Witness ==
    \E p \in Procs :
        /\ Done(p, "get")
        /\ ret[p].kind = "value"
        /\ pre[p].cache = Some(LegacyDocument)
        /\ IsInitialStatus(The(st[p]))
        /\ cache = Some(LegacyDocument)

(* C20: only complete_onboarding writes the relational settings: during    *)
(* and after a get-status, save-status or reset-status the settings are as *)
(* the command found them, and a successful reset leaves no wizard         *)
(* document while the settings of an earlier completion remain.            *)
C20_OnlyCompleteWritesSettings ==
    \A p \in Procs :
        /\ op[p] \in {"get", "save", "reset"} => rel = pre[p].rel
        /\ (Done(p, "reset") /\ ret[p] = Ok) => cache = None /\ rel = pre[p].rel

\* a reset after a successful completion: document gone, configs in place
C20_Witness ==
    \E p \in Procs :
        /\ Done(p, "reset")
        /\ ret[p] = Ok
        /\ HeldCompleted(pre[p].cache)
        /\ cache = None
        /\ rel.summary # None
        /\ rel.transcript # None

====
